---- MODULE Spec2Model ----
(***************************************************************************)
(* State-machine model of libavfilter/af_waveformdata.c: the waveformdata  *)
(* audio filter, which reduces a float sample stream to per-window min/max *)
(* points and serialises them into a peaks.js waveform data file.          *)
(*                                                                         *)
(* Float samples are represented exactly as integers counting halves       *)
(* (k stands for k/2, so 2 is 1.0f and -2 is -1.0f).                       *)
(***************************************************************************)
EXTENDS Integers, Sequences, FiniteSets, TLC

VARIABLES
    s,          \* WaveFormDataContext (the filter's private context)
    io,         \* the AVIOContext behind s->avio_context and its file
    pts,        \* history: every (min, max) handed to write_data_point
    log,        \* history: one entry per finish_block call
    broken,     \* environment: the destination device fails from now on
    phase,      \* position in the filter lifecycle
    format,     \* inlink->format
    sample_rate,\* outlink->sample_rate
    ret,        \* return value of the last callback that returns one
    reported,   \* history: some callback returned a negative value
    consumed,   \* history: frames per channel delivered to filter_frame
    inblock,    \* history: blocks finished inside filter_frame calls
    heard,      \* history: per channel, the sample values delivered
    frame,      \* the AVFrame of a filter_frame call that has not returned
    cur_smpl,   \* proc_smpl, the loop variable of that call (line 145)
    ser,        \* shadow run: same frames delivered one frame per buffer
    nosink      \* shadow run: same operations with no file option

vars == <<s, io, pts, log, broken, phase, format, sample_rate, ret,
          reported, consumed, inblock, heard, frame, cur_smpl, ser,
          nosink>>

----------------------------------------------------------------------------
(* Bounds of the model *)

MaxSamples == 6     \* samples (frames x channels) delivered over one stream
MaxChannels == 2    \* outlink->ch_layout.nb_channels ranges over 1..MaxChannels
MaxSpin == 2        \* iterations followed of a planar loop that cannot advance
MaxPoints == 2      \* points quantized in the quantizer's own specification

Samples == {-2, 1}          \* -1.0f and 0.5f
Lengths == {1, 2, 4, 6}     \* the length option, in hundredths of a second
SampleRates == {50}

(* Program constants *)
OUTPUT_BITS_8 == 0
OUTPUT_BITS_16 == 1
SHRT_MAX == 32767
CHAR_MAX == 127
AVERROR_ENOMEM == -12
AVERROR_ENOENT == -2
AVERROR_EIO == -5
COUNT_OFFSET == 16

Formats == {"FLTP", "FLT"}

\* frames per channel a stream of the given channel count may deliver
MaxFrames(channels) ==
    IF channels = 0 THEN 0 ELSE MaxSamples \div channels

----------------------------------------------------------------------------
(* Numeric helpers *)

Abs(x) == IF x < 0 THEN -x ELSE x

\* lrint(num / den) in the default rounding mode (to nearest, ties to even)
lrint(num, den) ==
    LET q == num \div den
        r == num % den
    IN  IF 2 * r < den THEN q
        ELSE IF 2 * r > den THEN q + 1
        ELSE IF q % 2 = 0 THEN q ELSE q + 1

\* variant: the product is converted without roundf (truncated toward zero)
roundf_scaled_truncating(v, scale) ==
    LET m == (Abs(v) * scale) \div 2
    IN  IF v < 0 THEN -m ELSE m

\* roundf(v * scale) for v given in halves: to nearest, ties away from zero
roundf_scaled(v, scale) ==
    LET a == Abs(v) * scale
        m == (a + 1) \div 2
    IN  IF v < 0 THEN -m ELSE m

\* little-endian bytes of the low 8*n bits of x (two's complement)
RECURSIVE le_bytes(_, _)
le_bytes(x, n) ==
    IF n = 0 THEN <<>>
    ELSE <<x % 256>> \o le_bytes(x \div 256, n - 1)

\* value of a little-endian unsigned field
RECURSIVE le_value(_)
le_value(bs) ==
    IF bs = <<>> THEN 0
    ELSE bs[1] + 256 * le_value(Tail(bs))

----------------------------------------------------------------------------
(* The AVIOContext, as far as the filter uses it *)

\* hits: history of the writes over the data-point-count field, each with
\* the value written and the length of the file at that moment
NoIO ==
    [open |-> FALSE, closed |-> FALSE, data |-> <<>>, pos |-> 0,
     error |-> FALSE, calls |-> 0, hits |-> <<>>]

\* the bytes of the file after writing bs at position pos (a gap reads as 0)
Overwrite(data, pos, bs) ==
    LET n == IF pos + Len(bs) > Len(data) THEN pos + Len(bs) ELSE Len(data)
    IN  IF pos = Len(data) THEN data \o bs
        ELSE [i \in 1..n |->
            IF i > pos /\ i <= pos + Len(bs) THEN bs[i - pos]
            ELSE IF i <= Len(data) THEN data[i] ELSE 0]

avio_put(w, bs) ==
    IF w.broken
    THEN [w EXCEPT !.io.error = TRUE, !.io.calls = @ + 1]
    ELSE [w EXCEPT !.io.data = Overwrite(@, w.io.pos, bs),
                   !.io.pos = @ + Len(bs),
                   !.io.calls = @ + 1,
                   !.io.hits = IF w.io.pos <= COUNT_OFFSET
                                  /\ COUNT_OFFSET < w.io.pos + Len(bs)
                               THEN Append(@, [val |-> le_value(bs),
                                               len |-> Len(w.io.data)])
                               ELSE @]

avio_w8(w, b) == avio_put(w, le_bytes(b, 1))

avio_wl16(w, v) == avio_put(w, le_bytes(v, 2))

avio_wl32(w, v) == avio_put(w, le_bytes(v, 4))

avio_seek(w, offset) ==
    IF w.broken
    THEN [w EXCEPT !.io.error = TRUE, !.io.calls = @ + 1]
    ELSE [w EXCEPT !.io.pos = offset, !.io.calls = @ + 1]

avio_closep(w) ==
    [w EXCEPT !.io.open = FALSE, !.io.closed = TRUE, !.io.calls = @ + 1,
              !.s.avio_context = FALSE]

----------------------------------------------------------------------------
(* The filter's functions, on a world w = [s, io, pts, log, broken] *)

\* n is history: the samples accumulated into the entry since it was reset
ZeroStats == [min |-> 0, max |-> 0, n |-> 0]

Context0 ==
    [file_str |-> FALSE, time_constant |-> 0, output_bits |-> OUTPUT_BITS_16,
     avio_context |-> FALSE, chstats |-> <<>>, nb_channels |-> 0,
     tc_samples |-> 0, window_pos |-> 0, total_blocks |-> 0]

World0 ==
    [s |-> Context0, io |-> NoIO, pts |-> <<>>, log |-> <<>>,
     broken |-> FALSE]

\* variant: the points are written without looking at s->avio_context
write_data_point_unguarded(w, min, max) ==
    LET w1 == [w EXCEPT !.pts = Append(@, [min |-> min, max |-> max])]
    IN  IF w1.s.output_bits = OUTPUT_BITS_16
        THEN avio_wl16(avio_wl16(w1, roundf_scaled(min, SHRT_MAX)),
                       roundf_scaled(max, SHRT_MAX))
        ELSE avio_w8(avio_w8(w1, roundf_scaled(min, CHAR_MAX)),
                     roundf_scaled(max, CHAR_MAX))

\* variant: max is written before min
write_data_point_max_first(w, min, max) ==
    LET w1 == [w EXCEPT !.pts = Append(@, [min |-> min, max |-> max])]
    IN  IF w1.s.avio_context
        THEN IF w1.s.output_bits = OUTPUT_BITS_16
             THEN avio_wl16(avio_wl16(w1, roundf_scaled(max, SHRT_MAX)),
                            roundf_scaled(min, SHRT_MAX))
             ELSE avio_w8(avio_w8(w1, roundf_scaled(max, CHAR_MAX)),
                          roundf_scaled(min, CHAR_MAX))
        ELSE w1

write_data_point(w, min, max) ==
    LET w1 == [w EXCEPT !.pts = Append(@, [min |-> min, max |-> max])]
    IN  IF w1.s.avio_context
        THEN IF w1.s.output_bits = OUTPUT_BITS_16
             THEN avio_wl16(avio_wl16(w1, roundf_scaled(min, SHRT_MAX)),
                            roundf_scaled(max, SHRT_MAX))
             ELSE avio_w8(avio_w8(w1, roundf_scaled(min, CHAR_MAX)),
                          roundf_scaled(max, CHAR_MAX))
        ELSE w1

\* variant: the accumulators are written but not reset
RECURSIVE finish_block_loop_keeps_stats(_, _)
finish_block_loop_keeps_stats(w, c) ==
    IF c > w.s.nb_channels THEN w
    ELSE LET p == w.s.chstats[c]
         IN  finish_block_loop_keeps_stats(write_data_point(w, p.min, p.max),
                                           c + 1)

RECURSIVE finish_block_loop(_, _)
finish_block_loop(w, c) ==
    IF c > w.s.nb_channels THEN w
    ELSE LET p == w.s.chstats[c]
             w1 == write_data_point(w, p.min, p.max)
         IN  finish_block_loop([w1 EXCEPT !.s.chstats[c] = ZeroStats], c + 1)

\* variant: total_blocks is counted inside the channel loop
finish_block_per_channel(w) ==
    LET w1 == finish_block_loop(w, 1)
    IN  [w1 EXCEPT !.s.window_pos = 0,
                   !.s.total_blocks = @ + w.s.nb_channels,
                   !.log = Append(@,
                       [points |-> SubSeq(w1.pts, Len(w.pts) + 1, Len(w1.pts)),
                        stats |-> w.s.chstats])]

finish_block(w) ==
    LET w1 == finish_block_loop(w, 1)
    IN  [w1 EXCEPT !.s.window_pos = 0,
                   !.s.total_blocks = @ + 1,
                   !.log = Append(@,
                       [points |-> SubSeq(w1.pts, Len(w.pts) + 1, Len(w1.pts)),
                        stats |-> w.s.chstats])]

\* variant: max follows the sample without the comparison
update_stat_always_max(p, sample) ==
    LET p0 == [p EXCEPT !.n = @ + 1, !.max = sample]
    IN  IF sample < p0.min THEN [p0 EXCEPT !.min = sample] ELSE p0

update_stat(p, sample) ==
    LET p0 == [p EXCEPT !.n = @ + 1]
        p1 == IF sample > p0.max THEN [p0 EXCEPT !.max = sample] ELSE p0
    IN  IF sample < p1.min THEN [p1 EXCEPT !.min = sample] ELSE p1

\* buffers: buf.nb_samples frames, buf.data[c][i] the sample of channel c
Buffers(channels, n) ==
    [nb_samples : {n}, data : [1..channels -> [1..n -> Samples]]]

av_clip(a, amin, amax) ==
    IF a < amin THEN amin ELSE IF a > amax THEN amax ELSE a

\* the i loop of the planar case: samples proc_smpl..window_end-1 of channel c
RECURSIVE planar_samples(_, _, _, _)
planar_samples(p, src, i, window_end) ==
    IF i >= window_end THEN p
    ELSE planar_samples(update_stat(p, src[i + 1]), src, i + 1, window_end)

RECURSIVE planar_channels(_, _, _, _, _)
planar_channels(w, buf, c, proc_smpl, window_end) ==
    IF c > w.s.nb_channels THEN w
    ELSE planar_channels(
             [w EXCEPT !.s.chstats[c] =
                 planar_samples(@, buf.data[c], proc_smpl, window_end)],
             buf, c + 1, proc_smpl, window_end)

\* one iteration of the proc_smpl loop (lines 146-157)
planar_body(w, buf, proc_smpl) ==
    LET window_end == av_clip(proc_smpl + w.s.tc_samples, 0, buf.nb_samples)
        w1 == planar_channels(w, buf, 1, proc_smpl, window_end)
        w2 == [w1 EXCEPT !.s.window_pos = window_end - proc_smpl]
    IN  IF w2.s.window_pos = w2.s.tc_samples THEN finish_block(w2) ELSE w2

\* the proc_smpl loop; it is only evaluated where proc_smpl advances
RECURSIVE planar_loop(_, _, _)
planar_loop(w, buf, proc_smpl) ==
    IF proc_smpl >= buf.nb_samples THEN w
    ELSE planar_loop(planar_body(w, buf, proc_smpl), buf,
                     proc_smpl + w.s.tc_samples)

RECURSIVE interleaved_channels(_, _, _, _)
interleaved_channels(w, buf, i, c) ==
    IF c > w.s.nb_channels THEN w
    ELSE interleaved_channels(
             [w EXCEPT !.s.chstats[c] = update_stat(@, buf.data[c][i + 1])],
             buf, i, c + 1)

RECURSIVE interleaved_loop(_, _, _)
interleaved_loop(w, buf, i) ==
    IF i >= buf.nb_samples THEN w
    ELSE LET w1 == interleaved_channels(w, buf, i, 1)
             w2 == [w1 EXCEPT !.s.window_pos = @ + 1]
             w3 == IF w2.s.window_pos = w2.s.tc_samples
                   THEN finish_block(w2) ELSE w2
         IN  interleaved_loop(w3, buf, i + 1)

\* the planar loop never leaves its first iteration: proc_smpl += 0
Spins(w, fmt, buf) ==
    fmt = "FLTP" /\ w.s.tc_samples = 0 /\ buf.nb_samples > 0

\* the switch of filter_frame, for a call that reaches the return statement
filter_frame_body(w, fmt, buf) ==
    IF fmt = "FLTP" THEN planar_loop(w, buf, 0)
    ELSE interleaved_loop(w, buf, 0)

\* variant: the channel count is written whatever the number of channels
config_output_body_always_count(w, channels, rate) ==
    LET w1 == [w EXCEPT !.s.chstats = [c \in 1..channels |-> ZeroStats],
                        !.s.nb_channels = channels,
                        !.s.tc_samples = lrint(w.s.time_constant * rate, 100),
                        !.s.window_pos = 0,
                        !.s.total_blocks = 0]
    IN  IF w1.s.avio_context
        THEN LET h1 == avio_wl32(w1, IF w1.s.nb_channels > 1 THEN 2 ELSE 1)
                 h2 == avio_wl32(h1, IF w1.s.output_bits = OUTPUT_BITS_8
                                     THEN 1 ELSE 0)
                 h3 == avio_wl32(h2, rate)
                 h4 == avio_wl32(h3, w1.s.tc_samples)
                 h5 == avio_wl32(h4, 0)
             IN  avio_wl32(h5, w1.s.nb_channels)
        ELSE w1

\* the world after config_output succeeded
config_output_body(w, channels, rate) ==
    LET w1 == [w EXCEPT !.s.chstats = [c \in 1..channels |-> ZeroStats],
                        !.s.nb_channels = channels,
                        !.s.tc_samples = lrint(w.s.time_constant * rate, 100),
                        !.s.window_pos = 0,
                        !.s.total_blocks = 0]
    IN  IF w1.s.avio_context
        THEN LET h1 == avio_wl32(w1, IF w1.s.nb_channels > 1 THEN 2 ELSE 1)
                 h2 == avio_wl32(h1, IF w1.s.output_bits = OUTPUT_BITS_8
                                     THEN 1 ELSE 0)
                 h3 == avio_wl32(h2, rate)
                 h4 == avio_wl32(h3, w1.s.tc_samples)
                 h5 == avio_wl32(h4, 0)
             IN  IF w1.s.nb_channels > 1
                 THEN avio_wl32(h5, w1.s.nb_channels) ELSE h5
        ELSE w1

\* variant: avio_context is taken as set whatever avio_open returned
init_body_keeps_context(w, file, bits, length, opened) ==
    LET w1 == [w EXCEPT !.s.file_str = file,
                        !.s.output_bits = bits,
                        !.s.time_constant = length,
                        !.s.avio_context = FALSE]
    IN  IF w1.s.file_str
        THEN [w1 EXCEPT !.s.avio_context = TRUE,
                        !.io.open = opened,
                        !.io.calls = @ + 1]
        ELSE w1

\* the world after init; opened tells whether avio_open succeeded
init_body(w, file, bits, length, opened) ==
    LET w1 == [w EXCEPT !.s.file_str = file,
                        !.s.output_bits = bits,
                        !.s.time_constant = length,
                        !.s.avio_context = FALSE]
    IN  IF w1.s.file_str
        THEN [w1 EXCEPT !.s.avio_context = opened,
                        !.io.open = opened,
                        !.io.calls = @ + 1]
        ELSE w1

\* variant: the count is patched before the partial window is flushed
uninit_body_patch_first(w) ==
    LET w1 == IF w.s.avio_context
              THEN avio_wl32(avio_seek(w, 4 * 4), w.s.total_blocks)
              ELSE w
        w2 == IF w1.s.window_pos # 0 THEN finish_block(w1) ELSE w1
        w3 == IF w2.s.avio_context THEN avio_closep(w2) ELSE w2
    IN  [w3 EXCEPT !.s.chstats = <<>>]

\* variant: the flush is taken only for a window that is already full
uninit_body_flush_if_full(w) ==
    LET w1 == IF w.s.window_pos = w.s.tc_samples /\ w.s.chstats # <<>>
              THEN finish_block(w) ELSE w
        w2 == IF w1.s.avio_context
              THEN avio_closep(
                       avio_wl32(avio_seek(w1, 4 * 4), w1.s.total_blocks))
              ELSE w1
    IN  [w2 EXCEPT !.s.chstats = <<>>]

\* variant: the partial window is not flushed
uninit_body_noflush(w) ==
    LET w2 == IF w.s.avio_context
              THEN avio_closep(
                       avio_wl32(avio_seek(w, 4 * 4), w.s.total_blocks))
              ELSE w
    IN  [w2 EXCEPT !.s.chstats = <<>>]

uninit_body(w) ==
    LET w1 == IF w.s.window_pos # 0 THEN finish_block(w) ELSE w
        w2 == IF w1.s.avio_context
              THEN avio_closep(
                       \* avio_wl32 keeps the low 32 bits: the uint32_t cast
                       avio_wl32(avio_seek(w1, 4 * 4), w1.s.total_blocks))
              ELSE w1
    IN  [w2 EXCEPT !.s.chstats = <<>>]

----------------------------------------------------------------------------
(* The state machine: the callbacks as libavfilter invokes them *)

World == [s |-> s, io |-> io, pts |-> pts, log |-> log, broken |-> broken]

Commit(w) ==
    /\ s' = w.s
    /\ io' = w.io
    /\ pts' = w.pts
    /\ log' = w.log

NoFrame == [nb_samples |-> 0, data |-> <<>>]

\* the buffer made of frame i (0-based) of buf alone
OneFrame(buf, i) ==
    [nb_samples |-> 1,
     data |-> [c \in DOMAIN buf.data |-> <<buf.data[c][i + 1]>>]]

\* buf delivered as buf.nb_samples buffers of one frame each
RECURSIVE feed_frames(_, _, _, _)
feed_frames(w, fmt, buf, i) ==
    IF i >= buf.nb_samples THEN w
    ELSE feed_frames(filter_frame_body(w, fmt, OneFrame(buf, i)), fmt, buf, i + 1)

Init ==
    /\ s = Context0
    /\ io = NoIO
    /\ pts = <<>>
    /\ log = <<>>
    /\ broken = FALSE
    /\ phase = "new"
    /\ format = "FLTP"
    /\ sample_rate = 0
    /\ ret = 0
    /\ reported = FALSE
    /\ consumed = 0
    /\ inblock = 0
    /\ heard = <<>>
    /\ frame = NoFrame
    /\ cur_smpl = 0
    /\ ser = World0
    /\ nosink = World0

\* init with the options set; avio_open succeeds when a file is named
init(file, bits, length) ==
    /\ phase = "new"
    /\ Commit(init_body(World, file, bits, length, TRUE))
    /\ ser' = init_body(ser, file, bits, length, TRUE)
    /\ nosink' = init_body(nosink, FALSE, bits, length, TRUE)
    /\ ret' = 0
    /\ phase' = "inited"
    /\ UNCHANGED <<broken, format, sample_rate, reported, consumed, inblock,
                   heard, frame, cur_smpl>>

\* init when avio_open fails (lines 184-190)
init_open_fails(bits, length) ==
    /\ phase = "new"
    /\ Commit(init_body(World, TRUE, bits, length, FALSE))
    /\ ser' = init_body(ser, TRUE, bits, length, FALSE)
    /\ nosink' = init_body(nosink, FALSE, bits, length, TRUE)
    /\ ret' = AVERROR_ENOENT
    /\ reported' = TRUE
    /\ phase' = "init_failed"
    /\ UNCHANGED <<broken, format, sample_rate, consumed, inblock, heard,
                   frame, cur_smpl>>

config_output(channels, rate, fmt) ==
    /\ phase = "inited"
    /\ Commit(config_output_body(World, channels, rate))
    /\ ser' = config_output_body(ser, channels, rate)
    /\ nosink' = config_output_body(nosink, channels, rate)
    /\ format' = fmt
    /\ heard' = [c \in 1..channels |-> {}]
    /\ sample_rate' = rate
    /\ ret' = 0
    /\ phase' = "ready"
    /\ UNCHANGED <<broken, reported, consumed, inblock, frame, cur_smpl>>

\* config_output when av_calloc fails (lines 74-75)
config_output_enomem ==
    /\ phase = "inited"
    /\ ret' = AVERROR_ENOMEM
    /\ reported' = TRUE
    /\ phase' = "config_failed"
    /\ UNCHANGED <<s, io, pts, log, broken, format, sample_rate, consumed,
                   inblock, heard, frame, cur_smpl, ser, nosink>>

\* filter_frame on buf; r is what ff_filter_frame returns for the next filter
filter_frame(buf, r) ==
    /\ phase = "ready"
    /\ ~Spins(World, format, buf)
    /\ LET w == filter_frame_body(World, format, buf)
       IN  /\ Commit(w)
           /\ inblock' = inblock + (Len(w.log) - Len(log))
    /\ ser' = feed_frames(ser, format, buf, 0)
    /\ nosink' = filter_frame_body(nosink, format, buf)
    /\ consumed' = consumed + buf.nb_samples
    /\ heard' = [c \in DOMAIN heard |->
                    heard[c] \cup {buf.data[c][i] : i \in 1..buf.nb_samples}]
    /\ ret' = r
    /\ reported' = (reported \/ r < 0)
    /\ phase' = IF r < 0 THEN "failed" ELSE "ready"
    /\ UNCHANGED <<broken, format, sample_rate, frame, cur_smpl>>

\* filter_frame enters a planar loop whose step tc_samples is 0
filter_frame_enter(buf) ==
    /\ phase = "ready"
    /\ Spins(World, format, buf)
    /\ frame' = buf
    /\ cur_smpl' = 0
    /\ phase' = "in_filter_frame"
    /\ UNCHANGED <<s, io, pts, log, broken, format, sample_rate, ret,
                   reported, consumed, inblock, heard, ser, nosink>>

\* one iteration of that loop (lines 145-158)
filter_frame_iterate ==
    /\ phase = "in_filter_frame"
    /\ s.total_blocks < MaxSpin
    /\ cur_smpl < frame.nb_samples
    /\ LET w == planar_body(World, frame, cur_smpl)
       IN  /\ Commit(w)
           /\ inblock' = inblock + (Len(w.log) - Len(log))
    /\ nosink' = planar_body(nosink, frame, cur_smpl)
    /\ cur_smpl' = cur_smpl + s.tc_samples
    /\ UNCHANGED <<broken, phase, format, sample_rate, ret, reported,
                   consumed, heard, frame, ser>>

uninit ==
    /\ phase \in {"inited", "init_failed", "config_failed", "ready", "failed"}
    /\ Commit(uninit_body(World))
    /\ ser' = uninit_body(ser)
    /\ nosink' = uninit_body(nosink)
    /\ phase' = "freed"
    /\ UNCHANGED <<broken, format, sample_rate, ret, reported, consumed,
                   inblock, heard, frame, cur_smpl>>

\* environment: the destination stops accepting writes and seeks
io_breaks ==
    /\ phase \in {"inited", "ready", "in_filter_frame"}
    /\ s.avio_context
    /\ ~broken
    /\ broken' = TRUE
    /\ UNCHANGED <<s, io, pts, log, phase, format, sample_rate, ret, reported,
                   consumed, inblock, heard, frame, cur_smpl, ser, nosink>>

Next ==
    \/ \E file \in BOOLEAN, bits \in {OUTPUT_BITS_8, OUTPUT_BITS_16},
          length \in Lengths : init(file, bits, length)
    \/ \E bits \in {OUTPUT_BITS_8, OUTPUT_BITS_16}, length \in Lengths :
          init_open_fails(bits, length)
    \/ \E channels \in 1..MaxChannels, rate \in SampleRates, fmt \in Formats :
          config_output(channels, rate, fmt)
    \/ config_output_enomem
    \/ \E n \in 0..(MaxFrames(s.nb_channels) - consumed) :
          \E buf \in Buffers(s.nb_channels, n), r \in {0, AVERROR_EIO} :
              filter_frame(buf, r)
    \/ \E n \in 1..(MaxFrames(s.nb_channels) - consumed) :
          \E buf \in Buffers(s.nb_channels, n) : filter_frame_enter(buf)
    \/ filter_frame_iterate
    \/ uninit
    \/ io_breaks

Spec == Init /\ [][Next]_vars

----------------------------------------------------------------------------
(* Vocabulary of the properties *)

\* config_output has run (nb_channels is set there and nowhere else)
Configured == s.nb_channels > 0

\* the stream was configured, fed and torn down
Finalized == phase = "freed" /\ Configured

\* a destination was opened and closed again, and every write and seek on it
\* succeeded
SinkIntact == io.closed /\ ~io.error

\* the 32-bit little-endian header field at byte offset 4 * k
Field(k) == le_value(SubSeq(io.data, 4 * k + 1, 4 * k + 4))

\* bytes of one quantized value
Width == IF s.output_bits = OUTPUT_BITS_16 THEN 2 ELSE 1

\* the number of windows a stream of n frames has at window length wlen
ExpectedWindows(n, wlen) ==
    (n \div wlen) + (IF n % wlen # 0 THEN 1 ELSE 0)

SetMin(S) == CHOOSE x \in S : \A y \in S : x <= y

SetMax(S) == CHOOSE x \in S : \A y \in S : x >= y

----------------------------------------------------------------------------
(* C1: after finalize, total_blocks is floor(N / W), plus one if N mod W   *)
(* is not 0, for N frames delivered in any buffers at window length        *)
(* W = tc_samples >= 1.  Stated as the claim has it; the planar case of    *)
(* filter_frame violates it.                                               *)
C1_WindowCount ==
    (Finalized /\ s.tc_samples >= 1)
        => s.total_blocks = ExpectedWindows(consumed, s.tc_samples)

(* C2: the emitted points and the block count after finalize do not depend *)
(* on how the frames are cut into buffers: they are those of the run that  *)
(* receives the same frames one frame per buffer.  Stated as the claim has *)
(* it; the planar case of filter_frame violates it.                        *)
C2_PartitionIndependent ==
    Finalized
        => /\ pts = ser.pts
           /\ log = ser.log
           /\ s.total_blocks = ser.s.total_blocks

(* C3: after finalize on a destination whose writes all succeeded, the     *)
(* data_point_count field at byte offset 16 is the number of windows       *)
(* emitted: those completed inside filter_frame plus the one flushed.      *)
C3_CountIsWindows ==
    (phase = "freed" /\ SinkIntact)
        => /\ Len(io.data) >= COUNT_OFFSET + 4
           /\ Field(4) = Len(log)

C3_Witness ==
    /\ phase = "freed"
    /\ SinkIntact
    /\ inblock >= 1
    /\ Len(log) = inblock + 1
    /\ s.nb_channels > 1

\* what a stream shorter than one window must produce
ShortStreamOutcome ==
    /\ inblock = 0
    /\ Len(log) = 1
    /\ Len(log[1].points) = s.nb_channels
    /\ \A c \in 1..s.nb_channels :
           log[1].points[c] = [min |-> SetMin(heard[c] \cup {0}),
                               max |-> SetMax(heard[c] \cup {0})]
    /\ SinkIntact => Field(4) = 1

(* C4 as stated: a stream of N < W frames emits no window in filter_frame, *)
(* exactly one at finalize, holding the partial accumulation, and the      *)
(* patched data_point_count is 1.  An empty stream (N = 0) violates it.    *)
C4_ShortStreamAsStated ==
    (Finalized /\ consumed < s.tc_samples) => ShortStreamOutcome

(* C4, amended: the same for a stream of 0 < N < W frames.                 *)
C4_ShortStream ==
    (Finalized /\ 0 < consumed /\ consumed < s.tc_samples)
        => ShortStreamOutcome

C4_Witness ==
    /\ Finalized
    /\ consumed = 2
    /\ s.tc_samples = 3
    /\ SinkIntact
    /\ Len(log) = 1
    /\ \E c \in 1..s.nb_channels : Cardinality(heard[c]) = 2

(* C5: the run with no file option performs no I/O call and goes through   *)
(* the same window_pos, accumulators and total_blocks as the run with it.  *)
C5_NoSinkSameReduction ==
    /\ nosink.io.calls = 0
    /\ nosink.io.data = <<>>
    /\ nosink.s.window_pos = s.window_pos
    /\ nosink.s.chstats = s.chstats
    /\ nosink.s.total_blocks = s.total_blocks

C5_Witness ==
    /\ s.file_str
    /\ io.calls > 8
    /\ s.total_blocks >= 1
    /\ s.window_pos > 0
    /\ \E c \in 1..s.nb_channels : s.chstats[c] # ZeroStats

RECURSIVE SumMin(_, _)
SumMin(stats, c) == IF c = 0 THEN 0 ELSE stats[c].min + SumMin(stats, c - 1)

RECURSIVE SumMax(_, _)
SumMax(stats, c) == IF c = 0 THEN 0 ELSE stats[c].max + SumMax(stats, c - 1)

(* C6: with the default options every completed window emits exactly one   *)
(* point, whose min (max) is the mean over the channels of the channels'   *)
(* window min (max).  Stated as the claim has it; finish_block emits one   *)
(* point per channel and never a mean.                                     *)
C6_SummedPoint ==
    \A k \in 1..Len(log) :
        /\ Len(log[k].points) = 1
        /\ log[k].points[1].min * s.nb_channels
               = SumMin(log[k].stats, s.nb_channels)
        /\ log[k].points[1].max * s.nb_channels
               = SumMax(log[k].stats, s.nb_channels)

\* a header has been written to a destination whose writes all succeeded
HeaderWritten ==
    /\ s.file_str
    /\ Configured
    /\ io.open \/ io.closed
    /\ ~io.error

\* the length the version field announces for the header
HeaderLen == IF Field(0) = 2 THEN 24 ELSE 20

(* C7: the header is version, flags (bit0 = 1 iff 8-bit), sample_rate,    *)
(* samples_per_pixel = tc_samples, data_point_count (0 until finalize),    *)
(* and a channel_count field exactly when version is 2; the peak data      *)
(* starts right after these 20 or 24 bytes; version is 1 exactly when each *)
(* window carries a single point, and with version 2 each window carries   *)
(* channel_count points.                                                   *)
C7_HeaderAgrees ==
    HeaderWritten
        => /\ Field(0) \in {1, 2}
           /\ Field(1) = (IF s.output_bits = OUTPUT_BITS_8 THEN 1 ELSE 0)
           /\ Field(2) = sample_rate
           /\ Field(3) = s.tc_samples
           /\ phase # "freed" => Field(4) = 0
           /\ Field(0) = 2 => Field(5) = s.nb_channels
           /\ Len(io.data) = HeaderLen + Len(pts) * 2 * Width
           /\ \A k \in 1..Len(log) :
                  /\ (Field(0) = 1) <=> (Len(log[k].points) = 1)
                  /\ Field(0) = 2 => Len(log[k].points) = Field(5)

C7_Witness ==
    /\ HeaderWritten
    /\ Field(0) = 2
    /\ s.output_bits = OUTPUT_BITS_8
    /\ Len(log) >= 2
    /\ phase = "ready"

(* C8: the data_point_count field stays 0, written once as a placeholder,  *)
(* until finalize; finalize overwrites it once, when the file already has  *)
(* its final length (every peak-data byte, the flushed window's included,  *)
(* is in place); a pipeline that is never finalized keeps the 0.           *)
C8_CountPatchedLast ==
    /\ Len(io.hits) <= 2
    /\ (phase # "freed" /\ Len(io.data) >= COUNT_OFFSET + 4)
           => /\ Field(4) = 0
              /\ Len(io.hits) = 1
              /\ io.hits[1].val = 0
    /\ (Finalized /\ SinkIntact)
           => /\ Len(io.hits) = 2
              /\ io.hits[2].val = Field(4)
              /\ io.hits[2].len = Len(io.data)

C8_Witness ==
    /\ Finalized
    /\ SinkIntact
    /\ inblock >= 1
    /\ Len(log) > inblock
    /\ Field(4) = 2

(* C9: a write or seek that fails during filter_frame or uninit makes the  *)
(* callback report a failure.  Stated as the claim has it; filter_frame    *)
(* returns what ff_filter_frame returns and uninit returns nothing.        *)
C9_FailureReported ==
    [][(phase = "ready" /\ ~io.error /\ io'.error) => ret' < 0]_vars

\* a full header, the peak data of every emitted point, the count patched
CompleteFile ==
    /\ Len(io.data) >= 20
    /\ Field(0) \in {1, 2}
    /\ Len(io.data) = HeaderLen + Len(pts) * 2 * Width
    /\ Field(4) = Len(log)

(* C10: when a destination was opened and no callback reported a failure,  *)
(* the finalized file is a complete header followed by the peak data, with *)
(* data_point_count patched.  Stated as the claim has it; uninit without a *)
(* preceding config_output, and unreported write failures, violate it.     *)
C10_CompleteOrFailed ==
    (phase = "freed" /\ io.closed /\ ~reported) => CompleteFile

\* avio_open failed in init (a destination that was opened is closed by uninit)
OpenFailed ==
    /\ s.file_str
    /\ phase \in {"init_failed", "freed"}
    /\ ~io.closed

(* C11: when avio_open fails, init returns the error and nothing follows   *)
(* but uninit: no byte is written, no per-channel state exists, no frame   *)
(* is consumed, and uninit makes no I/O call (the only call on the         *)
(* destination is the failed avio_open).                                   *)
C11_OpenFailureStopsSetup ==
    OpenFailed
        => /\ ret < 0
           /\ reported
           /\ ~s.avio_context
           /\ io.data = <<>>
           /\ io.calls = 1
           /\ s.chstats = <<>>
           /\ s.nb_channels = 0
           /\ consumed = 0
           /\ pts = <<>>

C11_Witness == OpenFailed /\ phase = "freed"

(* C12: every filter_frame call terminates, for every tc_samples the       *)
(* options admit (0 included): each iteration of the planar loop brings    *)
(* proc_smpl closer to buf->nb_samples.  Stated as the claim has it; with  *)
(* tc_samples = 0 the iteration leaves proc_smpl where it was.             *)
C12_ConsumeTerminates ==
    [][(phase = "in_filter_frame" /\ phase' = "in_filter_frame")
           => cur_smpl' > cur_smpl]_vars

----------------------------------------------------------------------------
(* The quantizer on its own: write_data_point applied to every pair of     *)
(* values of [-1.0, 1.0] the representation has, at both resolutions, on a *)
(* destination that holds a one-channel header.                            *)

QValues == -2..2

QWorld(bits) ==
    config_output_body(init_body(World0, TRUE, bits, 4, TRUE), 1, 50)

QInit ==
    /\ \E bits \in {OUTPUT_BITS_8, OUTPUT_BITS_16} :
           /\ s = QWorld(bits).s
           /\ io = QWorld(bits).io
           /\ ser = QWorld(bits)
    /\ pts = <<>>
    /\ log = <<>>
    /\ broken = FALSE
    /\ phase = "ready"
    /\ format = "FLT"
    /\ sample_rate = 50
    /\ ret = 0
    /\ reported = FALSE
    /\ consumed = 0
    /\ inblock = 0
    /\ heard = <<{}>>
    /\ frame = NoFrame
    /\ cur_smpl = 0
    /\ nosink = World0

q_write(min, max) ==
    /\ Len(pts) < MaxPoints
    /\ Commit(write_data_point(World, min, max))
    /\ UNCHANGED <<broken, phase, format, sample_rate, ret, reported, consumed,
                   inblock, heard, frame, cur_smpl, ser, nosink>>

QNext == \E min \in QValues, max \in QValues : q_write(min, max)

QSpec == QInit /\ [][QNext]_vars

\* value of a little-endian two's complement field
le_signed(bs) ==
    LET u == le_value(bs)
        half == IF Len(bs) = 1 THEN 128 ELSE 32768
    IN  IF u >= half THEN u - 2 * half ELSE u

\* the j-th value (0: min, 1: max) of the k-th point after a 20-byte header
Emitted(k, j) ==
    LET at == 20 + ((k - 1) * 2 + j) * Width
    IN  le_signed(SubSeq(io.data, at + 1, at + Width))

\* q is v * scale (v in halves) rounded to nearest, ties away from zero
IsRounded(q, v, scale) ==
    /\ Abs(2 * q - v * scale) <= 1
    /\ Abs(2 * q - v * scale) = 1 => 2 * Abs(q) > Abs(v) * scale
    /\ Abs(q) <= scale

Scale == IF s.output_bits = OUTPUT_BITS_16 THEN SHRT_MAX ELSE CHAR_MAX

(* C13: each point is emitted as min then max, each the value scaled by    *)
(* 32767 (16-bit) or 127 (8-bit), rounded to nearest with ties away from   *)
(* zero, as a little-endian signed integer of the configured width; -1.0   *)
(* gives -32767 resp. -127 and 1.0 gives 32767 resp. 127; every value of   *)
(* [-1.0, 1.0] gives an integer within the scale.                          *)
C13_Quantize ==
    /\ Len(io.data) = 20 + Len(pts) * 2 * Width
    /\ \A k \in 1..Len(pts) :
           /\ IsRounded(Emitted(k, 0), pts[k].min, Scale)
           /\ IsRounded(Emitted(k, 1), pts[k].max, Scale)
           /\ pts[k].min = -2 => Emitted(k, 0) = -Scale
           /\ pts[k].max = 2 => Emitted(k, 1) = Scale

C13_Witness ==
    /\ Len(pts) = 2
    /\ pts[1] = [min |-> -2, max |-> 2]
    /\ pts[2] = [min |-> -1, max |-> 1]
    /\ s.output_bits = OUTPUT_BITS_16
    /\ Emitted(1, 0) = -32767
    /\ Emitted(2, 1) = 16384

----------------------------------------------------------------------------
\* no filter_frame call is in progress on a configured stream
BetweenCalls == Configured /\ phase \in {"ready", "failed"}

(* C14: after configuration 0 <= window_pos <= tc_samples, and between     *)
(* filter_frame calls window_pos < tc_samples, for both layouts and every  *)
(* tc_samples the options can produce.  Stated as the claim has it; with   *)
(* tc_samples = 0 window_pos cannot be below tc_samples, and interleaved   *)
(* input raises it above.                                                  *)
C14_WindowPosRange ==
    /\ Configured => (0 <= s.window_pos /\ s.window_pos <= s.tc_samples)
    /\ BetweenCalls => s.window_pos < s.tc_samples

(* C15: a planar filter_frame call of k frames that starts at window_pos   *)
(* = p ends with window_pos = (p + k) mod tc_samples, also when p > 0 was  *)
(* left by an earlier buffer.  Stated as the claim has it; the planar case *)
(* assigns window_pos from the buffer alone.                               *)
C15_PlanarCarriesWindowPos ==
    [][(/\ phase = "ready"
        /\ phase' \in {"ready", "failed"}
        /\ format = "FLTP"
        /\ s.tc_samples >= 1)
           => s'.window_pos
                  = (s.window_pos + (consumed' - consumed)) % s.tc_samples]_vars

(* C16: planar and interleaved input are processed identically: from any   *)
(* state between calls, the same buffer leaves the same accumulators,      *)
(* window_pos, total_blocks, points and block completions in either        *)
(* layout.  Stated as the claim has it, for tc_samples >= 1 (with 0 the    *)
(* planar case does not return); the two cases of filter_frame differ once *)
(* a buffer starts inside a window.                                        *)
C16_LayoutsAgree ==
    (phase = "ready" /\ s.tc_samples >= 1)
        => \A n \in 0..(MaxFrames(s.nb_channels) - consumed) :
               \A buf \in Buffers(s.nb_channels, n) :
                   /\ ~Spins(World, "FLTP", buf)
                   /\ filter_frame_body(World, "FLTP", buf)
                          = filter_frame_body(World, "FLT", buf)

----------------------------------------------------------------------------
\* the accumulators exist (between config_output and uninit)
HasStats == Configured /\ phase \in {"ready", "failed", "in_filter_frame"}

(* C17: a block completion resets every accumulator to (0, 0), sets        *)
(* window_pos to 0 and adds exactly 1 to total_blocks whatever the channel *)
(* count; total_blocks changes in no other way (each step changes it by    *)
(* the number of completions in the step); tc_samples and nb_channels do   *)
(* not change after configuration.                                         *)
C17_BlockCompletionFrame ==
    /\ [](HasStats
            => LET f == finish_block(World)
               IN  /\ \A c \in 1..s.nb_channels : f.s.chstats[c] = ZeroStats
                   /\ f.s.window_pos = 0
                   /\ f.s.total_blocks = s.total_blocks + 1
                   /\ Len(f.log) = Len(log) + 1
                   /\ f.s.tc_samples = s.tc_samples
                   /\ f.s.nb_channels = s.nb_channels)
    /\ [][/\ s'.total_blocks - s.total_blocks = Len(log') - Len(log)
          /\ Configured => /\ s'.tc_samples = s.tc_samples
                           /\ s'.nb_channels = s.nb_channels]_vars

C17_Witness ==
    /\ phase = "freed"
    /\ s.nb_channels > 1
    /\ inblock >= 1
    /\ s.total_blocks = inblock + 1

\* every sample delivered on channel c so far had the given sign
AllNegative(c) == heard[c] # {} /\ \A x \in heard[c] : x < 0

AllPositive(c) == heard[c] # {} /\ \A x \in heard[c] : x > 0

(* C18: every accumulator and every emitted point has min <= 0 <= max; a   *)
(* channel that has only had negative samples is emitted with max = 0, one *)
(* that has only had positive samples with min = 0.                        *)
C18_ZeroSentinel ==
    /\ \A c \in 1..Len(s.chstats) :
           s.chstats[c].min <= 0 /\ 0 <= s.chstats[c].max
    /\ \A k \in 1..Len(pts) : pts[k].min <= 0 /\ 0 <= pts[k].max
    /\ \A k \in 1..Len(log) : \A c \in 1..Len(heard) :
           /\ AllNegative(c) => log[k].points[c].max = 0
           /\ AllPositive(c) => log[k].points[c].min = 0

C18_Witness ==
    /\ Len(log) >= 2
    /\ Len(heard) = 2
    /\ AllNegative(1)
    /\ AllPositive(2)
    /\ log[1].points[1] = [min |-> -2, max |-> 0]
    /\ log[1].points[2] = [min |-> 0, max |-> 1]

\* the i-th value (from 0) of the peak data, as a signed integer
PeakValue(i) ==
    le_signed(SubSeq(io.data, HeaderLen + i * Width + 1,
                     HeaderLen + (i + 1) * Width))

(* C19: on a destination whose writes all succeeded, the peak data after   *)
(* the header is total_blocks * nb_channels * 2 * width bytes: for each    *)
(* window in order, for each channel in order 0..nb_channels-1, the        *)
(* quantized min then the quantized max of that channel's accumulator; so  *)
(* after finalize the file is the header plus data_point_count *           *)
(* nb_channels * 2 * width bytes.                                          *)
C19_PeakDataLayout ==
    HeaderWritten
        => /\ Len(io.data)
                  = HeaderLen + s.total_blocks * s.nb_channels * 2 * Width
           /\ \A k \in 1..Len(log) : \A c \in 1..s.nb_channels :
                  LET i == ((k - 1) * s.nb_channels + (c - 1)) * 2
                  IN  /\ PeakValue(i)
                             = roundf_scaled(log[k].stats[c].min, Scale)
                      /\ PeakValue(i + 1)
                             = roundf_scaled(log[k].stats[c].max, Scale)
           /\ phase = "freed"
                  => Len(io.data)
                         = HeaderLen + Field(4) * s.nb_channels * 2 * Width

C19_Witness ==
    /\ HeaderWritten
    /\ phase = "freed"
    /\ s.nb_channels = 2
    /\ s.output_bits = OUTPUT_BITS_8
    /\ Field(4) = 2
    /\ log[1].stats[1].min # log[1].stats[2].min
    /\ log[2].stats[1].max # log[2].stats[2].max

\* samples of channel c accumulated into the first k emitted windows
RECURSIVE Accounted(_, _)
Accounted(c, k) ==
    IF k = 0 THEN 0 ELSE log[k].stats[c].n + Accounted(c, k - 1)

(* C20: between calls, window_pos = 0 implies that every accumulator is    *)
(* (0, 0) and holds no sample, so the flush condition of uninit discards   *)
(* nothing; after finalize every delivered frame has been accumulated into *)
(* exactly one emitted window, and the extremes of the emitted windows are *)
(* those of the delivered samples.                                         *)
C20_NothingDiscarded ==
    /\ (BetweenCalls /\ s.window_pos = 0)
           => \A c \in 1..s.nb_channels : s.chstats[c] = ZeroStats
    /\ Finalized
           => \A c \in 1..s.nb_channels :
                  /\ Accounted(c, Len(log)) = consumed
                  /\ \A x \in heard[c] :
                         \E k \in 1..Len(log) :
                             /\ log[k].points[c].min <= x
                             /\ x <= log[k].points[c].max

C20_Witness ==
    /\ Finalized
    /\ format = "FLTP"
    /\ s.tc_samples = 2
    /\ Len(log) = 2
    /\ log[1].stats[1].n = 3
    /\ log[2].stats[1].n = 1
    /\ consumed = 4

====
